---- MODULE Spec2Model ----
(***************************************************************************)
(* Model of the personal-tracking backend (backend/app):                   *)
(*   - routes/coach.py   get_coaching_feedback: fallback-model retry loop  *)
(*   - routes/quotes.py  get_daily_quote: one-record file cache            *)
(*   - routes/voice.py   voice_stream / process_audio_chunks: chunk buffer *)
(*   - services/supabase.py  the persistence gateway and its mock mode     *)
(*   - routes/analytics.py   get_dashboard: averages over the window       *)
(*   - services/ai_provider.py, services/providers: get_ai and the two     *)
(*     provider classes                                                    *)
(*   - routes/chat.py    send_message: history, AI answer, three kinds of  *)
(*     save, with chat_with_ai of services/gemini.py                       *)
(* Each component is a state machine over its own variables; SpecCoach,    *)
(* SpecQuotes, SpecVoice and SpecStore run one component each from the     *)
(* common Init.                                                            *)
(***************************************************************************)
EXTENDS Integers, Sequences, FiniteSets, TLC

VARIABLES
    \* ---- routes/coach.py: one request at a time (handler has only locals)
    coachPc,        \* "idle" | "loop" | "done": position of get_coaching_feedback
    coachModels,    \* FALLBACK_MODELS as built by the running request
    coachIdx,       \* position of the for-loop in FALLBACK_MODELS (1-based)
    coachLog,       \* requests.post calls made by the running request, in order
    last_error,     \* local last_error of the handler
    coachResult,    \* what the handler returned or raised
    coachRequests   \* number of requests started so far

coachVars == <<coachPc, coachModels, coachIdx, coachLog, last_error, coachResult,
               coachRequests>>

VARIABLES
    \* ---- routes/quotes.py: requests share the clock and the cache file
    today,          \* date.today(), as a day number
    cacheFile,      \* content of QUOTE_CACHE_FILE
    qPc,            \* per request slot: "idle" | "generating" (inside the await)
    qResp,          \* per request slot: the response of its last finished call
    qInvoked,       \* per request slot: its current/last call invoked the generator
    qStartDate,     \* per request slot: date.today() when its current/last call began
    qStale,         \* per request slot: that call found a record of another date
    qPrev,          \* per request slot: the latest response any call had returned
                    \*   when its current/last call began
    lastReturned,   \* the latest response returned by any call
    quoteCalls,     \* number of calls begun so far
    qCaller         \* the slot of the call begun last

quoteVars == <<today, cacheFile, qPc, qResp, qInvoked, qStartDate, qStale, qPrev,
               lastReturned, quoteCalls, qCaller>>

VARIABLES
    \* ---- routes/voice.py: one WebSocket connection at a time
    wsState,        \* "open": voice_stream waits in receive_text; "closed": it ended
    is_recording,   \* local is_recording of voice_stream
    audio_chunks,   \* local audio_chunks of voice_stream
    whisperLoaded,  \* process_audio_chunks.model is set (kept across connections)
    nextChunk,      \* arrival number given to the next chunk put in the buffer
    lastMsg,        \* the client message handled last
    flushed,        \* the process_audio_chunks calls made while handling lastMsg
    sentNow,        \* the messages sent to the client while handling lastMsg
    voiceMsgs,      \* number of client messages handled so far
    passed,         \* the audio joined by the process_audio_chunks calls so far, call after call
    dropped         \* arrival numbers of the chunks that line 52 threw away

voiceVars == <<wsState, is_recording, audio_chunks, whisperLoaded, nextChunk, lastMsg,
               flushed, sentNow, voiceMsgs, passed, dropped>>

VARIABLES
    \* ---- services/supabase.py: the persistence gateway and its database
    supabase,       \* module attribute supabase: "None" (mock mode) | "client"
    tracking_logs,  \* rows of table tracking_logs, in insertion order
    chat_messages,  \* rows of table chat_messages, in insertion order
    dbCalls,        \* number of execute() calls sent to the database
    gwLog,          \* names of the gateway operations called so far, in order
    gwCall,         \* the gateway call made last, with its arguments
    gwResult        \* what that call returned or raised

storeVars == <<supabase, tracking_logs, chat_messages, dbCalls, gwLog, gwCall, gwResult>>

VARIABLES
    \* ---- routes/analytics.py
    dashCall,       \* the get_dashboard request served last
    dashResult      \* its response

dashVars == <<dashCall, dashResult>>

VARIABLES
    \* ---- services/ai_provider.py and services/providers/*.py
    envFlag,        \* os.environ["AI_PROVIDER"], or "unset"
    envKeys,        \* which of GEMINI_API_KEY, OPENROUTER_API_KEY are set
    ai_provider,    \* module attribute _ai_provider: NoProvider or an instance
    constructed,    \* number of provider objects constructed so far
    flagReads,      \* number of times get_ai_provider read AI_PROVIDER
    aiLog,          \* names of the get_ai and provider-method calls so far
    aiGot,          \* what the last get_ai call returned or raised
    aiOp,           \* the provider method called last, with what upstream did
    aiResult        \* what that method returned or raised

aiVars == <<envFlag, envKeys, ai_provider, constructed, flagReads, aiLog, aiGot, aiOp,
            aiResult>>

VARIABLES
    \* ---- routes/chat.py: one send_message request at a time
    chatPc,         \* position of send_message: "idle" | "history" | "user" | "assistant" | "done"
    chatReq,        \* the ChatMessage of the running request
    ai_response,    \* local ai_response, once chat_with_ai has returned
    chatTodo,       \* the items of extracted_data the for-loop has not reached yet
    chatLog,        \* the gateway calls made by the running request, in order
    chatResult,     \* what the handler returned or raised
    chatRequests    \* number of requests started so far

chatVars == <<chatPc, chatReq, ai_response, chatTodo, chatLog, chatResult, chatRequests>>

vars == <<coachVars, quoteVars, voiceVars, storeVars, dashVars, aiVars, chatVars>>

\* what the handlers of one component leave alone
notCoachVars == <<quoteVars, voiceVars, storeVars, dashVars, aiVars, chatVars>>
notQuoteVars == <<coachVars, voiceVars, storeVars, dashVars, aiVars, chatVars>>
notVoiceVars == <<coachVars, quoteVars, storeVars, dashVars, aiVars, chatVars>>
notStoreVars == <<coachVars, quoteVars, voiceVars, aiVars>>
notAiVars == <<coachVars, quoteVars, voiceVars, storeVars, dashVars, chatVars>>
notChatVars == <<coachVars, quoteVars, voiceVars, dashVars, aiVars>>

-----------------------------------------------------------------------------
(* Bounds *)

MaxLen == 2             \* longest text (response content, quote) drawn as an input
MaxCoachRequests == 2   \* coaching requests per behaviour
MaxQuoteCalls == 3      \* daily-quote calls per behaviour
MaxDay == 2             \* calendar dates 1..MaxDay
MaxVoiceMsgs == 7       \* client messages per behaviour

-----------------------------------------------------------------------------
(* Text: a Python str is a sequence of characters; " " is whitespace.      *)

Chars == {" ", "a", "b"}

Strings == UNION {[1..k -> Chars] : k \in 0..MaxLen}

IsSpace(c) == c = " "

RECURSIVE LStrip(_)
LStrip(s) == IF s # <<>> /\ IsSpace(Head(s)) THEN LStrip(Tail(s)) ELSE s

RECURSIVE RStrip(_)
RStrip(s) ==
    IF s # <<>> /\ IsSpace(s[Len(s)]) THEN RStrip(SubSeq(s, 1, Len(s) - 1)) ELSE s

\* str.strip()
Strip(s) == RStrip(LStrip(s))

\* bool(s) of a str
Truthy(s) == s # <<>>

-----------------------------------------------------------------------------
(* routes/coach.py                                                         *)

DEFAULT_MODEL == "mistralai/devstral-2512:free"
BACKUP_MODELS == <<"meta-llama/llama-3.2-3b-instruct:free",
                   "nvidia/nemotron-nano-9b-v2:free">>

\* values OPENROUTER_MODEL may hold when a request reads it ("" = unset)
EnvModels == {"", "custom/model", "meta-llama/llama-3.2-3b-instruct:free"}

\* os.getenv("OPENROUTER_MODEL", default) followed by the two fixed backups
FALLBACK_MODELS(env) == <<IF env = "" THEN DEFAULT_MODEL ELSE env>> \o BACKUP_MODELS

SERVICE_UNAVAILABLE == 503

HttpStatuses == {200, 429, 500, 503}

NoOutcome == [kind |-> "none", status |-> 0, shape |-> "none", content |-> <<>>]

\* What one requests.post can do: fail on the network (connection error,
\* timeout), or deliver a response with a status and a body. A 200 body is
\* not JSON, JSON of another shape, a chat completion whose content is null,
\* or a chat completion with a text content.
PostOutcomes ==
    {[kind |-> "network", status |-> 0, shape |-> "none", content |-> <<>>]}
    \cup {[kind |-> "response", status |-> s, shape |-> "none", content |-> <<>>] :
             s \in HttpStatuses \ {200}}
    \cup {[kind |-> "response", status |-> 200, shape |-> sh, content |-> <<>>] :
             sh \in {"notjson", "badshape", "nullcontent"}}
    \cup {[kind |-> "response", status |-> 200, shape |-> "chat", content |-> c] :
             c \in Strings}

\* response.raise_for_status(): HTTPError for 4xx and 5xx
raise_for_status(o) == o.kind = "response" /\ o.status >= 400

\* response.json()['choices'][0]['message']['content'].strip() evaluates
Parseable(o) == o.kind = "response" /\ o.shape = "chat"

\* result['choices'][0]['message']['content'].strip()
Feedback(o) == Strip(o.content)

AttemptVerdict_503Fatal(o) ==
    IF raise_for_status(o) THEN "raise"
    ELSE IF Parseable(o) THEN "return" ELSE "continue"

AttemptVerdict_RetryAnyHttp(o) ==
    IF raise_for_status(o) THEN "continue"
    ELSE IF Parseable(o) THEN "return" ELSE "continue"

AttemptVerdict_ExceptionFatal(o) ==
    IF raise_for_status(o)
    THEN (IF o.status = SERVICE_UNAVAILABLE THEN "continue" ELSE "raise")
    ELSE IF Parseable(o) THEN "return" ELSE "raise"

\* The try/except of one loop iteration: "return" (line 88), "continue"
\* (lines 95 and 105) or "raise" (line 99).
AttemptVerdict(o) ==
    IF raise_for_status(o)
    THEN (IF o.status = SERVICE_UNAVAILABLE THEN "continue" ELSE "raise")
    ELSE IF Parseable(o) THEN "return" ELSE "continue"

NextCandidate_Skip(idx) == idx + 2

\* line 63: the for-loop moves to the element after position idx
NextCandidate(idx) == idx + 1

LoopExhausted_OffByOne(idx, models) == idx >= Len(models) - 1

\* the for-loop has no element left after position idx
LoopExhausted(idx, models) == idx >= Len(models)

NoResult == [kind |-> "none", status_code |-> 0, feedback |-> <<>>,
             detail |-> "", http_error |-> 0]

CoachingResponse(text) ==
    [kind |-> "feedback", status_code |-> 200, feedback |-> text,
     detail |-> "", http_error |-> 0]

\* HTTPException(status_code=code, detail=detail); http_error is the status of
\* the upstream HTTPError whose text the detail carries (0: none)
HTTPException(code, detail, upstream) ==
    [kind |-> "HTTPException", status_code |-> code, feedback |-> <<>>,
     detail |-> detail, http_error |-> upstream]

\* lines 107-112
AllUnavailable == HTTPException(503, "All AI models temporarily unavailable", 0)

CoachInit ==
    /\ coachPc = "idle"
    /\ coachModels = <<>>
    /\ coachIdx = 0
    /\ coachLog = <<>>
    /\ last_error = NoOutcome
    /\ coachResult = NoResult
    /\ coachRequests = 0

\* A request arrives: lines 39-60, up to the loop.
CoachRequest(env, hasKey) ==
    /\ coachPc \in {"idle", "done"}
    /\ UNCHANGED notCoachVars
    /\ coachRequests < MaxCoachRequests
    /\ coachRequests' = coachRequests + 1
    /\ coachModels' = FALLBACK_MODELS(env)
    /\ coachLog' = <<>>
    /\ last_error' = NoOutcome
    /\ IF hasKey
       THEN /\ coachPc' = "loop"
            /\ coachIdx' = 1
            /\ coachResult' = NoResult
       ELSE /\ coachPc' = "done"
            /\ coachIdx' = 0
            /\ coachResult' = HTTPException(500, "OPENROUTER_API_KEY not configured", 0)

\* One iteration of the loop (lines 63-105) for the model at coachIdx, and the
\* code after the loop (lines 107-112) when that was the last model.
CoachTryModel(o) ==
    /\ coachPc = "loop"
    /\ UNCHANGED notCoachVars
    /\ coachLog' = Append(coachLog, [model |-> coachModels[coachIdx], outcome |-> o])
    /\ UNCHANGED <<coachModels, coachRequests>>
    /\ LET v == AttemptVerdict(o) IN
       CASE v = "return" ->
              /\ coachResult' = CoachingResponse(Feedback(o))
              /\ coachPc' = "done"
              /\ UNCHANGED <<coachIdx, last_error>>
         [] v = "raise" ->
              /\ coachResult' = HTTPException(500, "str(e)", o.status)
              /\ coachPc' = "done"
              /\ UNCHANGED <<coachIdx, last_error>>
         [] OTHER ->
              /\ last_error' = o
              /\ IF LoopExhausted(coachIdx, coachModels)
                 THEN /\ coachResult' = AllUnavailable
                      /\ coachPc' = "done"
                      /\ UNCHANGED coachIdx
                 ELSE /\ coachIdx' = NextCandidate(coachIdx)
                      /\ UNCHANGED <<coachPc, coachResult>>

CoachNext ==
    \/ \E env \in EnvModels, hasKey \in BOOLEAN : CoachRequest(env, hasKey)
    \/ \E o \in PostOutcomes : CoachTryModel(o)

-----------------------------------------------------------------------------
(* routes/quotes.py                                                        *)

\* two requests may be in flight at once
QuoteClients == {"r1", "r2"}

\* what generate_daily_quote can hand back: the empty text (the upstream
\* reply was blank or only a pair of quote marks) and two different texts
QuoteTexts == {<<>>, <<"a">>, <<"b">>}

NoFile == [state |-> "absent", date |-> 0, quote |-> <<>>]

\* a file json.load cannot read (left empty by an interrupted write)
CorruptFile == [state |-> "corrupt", date |-> 0, quote |-> <<>>]

None == [none |-> TRUE, quote |-> <<>>]

Some(q) == [none |-> FALSE, quote |-> q]

NoResponse == [quote |-> <<>>, date |-> 0, cached |-> FALSE]

get_cached_quote_NoDateCheck(file, d) ==
    IF file.state = "record" THEN Some(file.quote) ELSE None

\* get_cached_quote(): the stored quote if the file exists, loads, and carries
\* today's date; None otherwise (also on any exception)
get_cached_quote(file, d) ==
    IF file.state = "record" /\ file.date = d THEN Some(file.quote) ELSE None

\* `if cached_quote:` -- None and the empty string are both false
CacheHit(cached_quote) == ~cached_quote.none /\ Truthy(cached_quote.quote)

save_quote_to_cache_Blank(quote, d) == [state |-> "record", date |-> d, quote |-> <<>>]

\* save_quote_to_cache(quote): the file content after the write
save_quote_to_cache(quote, d) == [state |-> "record", date |-> d, quote |-> quote]

QuoteInit ==
    /\ today = 1
    /\ cacheFile \in {NoFile, CorruptFile}
    /\ qPc = [c \in QuoteClients |-> "idle"]
    /\ qResp = [c \in QuoteClients |-> NoResponse]
    /\ qInvoked = [c \in QuoteClients |-> FALSE]
    /\ qStartDate = [c \in QuoteClients |-> 0]
    /\ qStale = [c \in QuoteClients |-> FALSE]
    /\ qPrev = [c \in QuoteClients |-> NoResponse]
    /\ lastReturned = NoResponse
    /\ quoteCalls = 0
    /\ qCaller = "r1"

\* get_daily_quote up to its await: the cache lookup and, on a hit, the
\* response (lines 39-46); on a miss the generator is invoked (line 49).
QuoteBegin(c) ==
    /\ qPc[c] = "idle"
    /\ quoteCalls < MaxQuoteCalls
    /\ quoteCalls' = quoteCalls + 1
    /\ qCaller' = c
    /\ qStartDate' = [qStartDate EXCEPT ![c] = today]
    /\ qStale' = [qStale EXCEPT ![c] = cacheFile.state = "record" /\ cacheFile.date # today]
    /\ qPrev' = [qPrev EXCEPT ![c] = lastReturned]
    /\ LET cached_quote == get_cached_quote(cacheFile, today) IN
       IF CacheHit(cached_quote)
       THEN LET r == [quote |-> cached_quote.quote, date |-> today, cached |-> TRUE] IN
            /\ qResp' = [qResp EXCEPT ![c] = r]
            /\ lastReturned' = r
            /\ qInvoked' = [qInvoked EXCEPT ![c] = FALSE]
            /\ UNCHANGED qPc
       ELSE /\ qPc' = [qPc EXCEPT ![c] = "generating"]
            /\ qInvoked' = [qInvoked EXCEPT ![c] = TRUE]
            /\ UNCHANGED <<qResp, lastReturned>>
    /\ UNCHANGED <<today, cacheFile>>
    /\ UNCHANGED notQuoteVars

\* get_daily_quote after its await: the generator returned `quote`; it is
\* saved under the current date and returned (lines 49-56).
QuoteFinish(c, quote) ==
    /\ qPc[c] = "generating"
    /\ cacheFile' = save_quote_to_cache(quote, today)
    /\ LET r == [quote |-> quote, date |-> today, cached |-> FALSE] IN
       /\ qResp' = [qResp EXCEPT ![c] = r]
       /\ lastReturned' = r
    /\ qPc' = [qPc EXCEPT ![c] = "idle"]
    /\ UNCHANGED <<today, qInvoked, qStartDate, qStale, qPrev, quoteCalls, qCaller>>
    /\ UNCHANGED notQuoteVars

\* midnight passes
Tick ==
    /\ today < MaxDay
    /\ today' = today + 1
    /\ UNCHANGED <<cacheFile, qPc, qResp, qInvoked, qStartDate, qStale, qPrev,
                   lastReturned, quoteCalls, qCaller>>
    /\ UNCHANGED notQuoteVars

QuoteNext ==
    \/ \E c \in QuoteClients : QuoteBegin(c)
    \/ \E c \in QuoteClients, quote \in QuoteTexts : QuoteFinish(c, quote)
    \/ Tick

-----------------------------------------------------------------------------
(* routes/voice.py                                                         *)

FLUSH_THRESHOLD == 5

MIN_AUDIO_BYTES == 1000

\* The "audio" field of a message, as base64 text: `data` characters of the
\* base64 alphabet, `pad` trailing "=" signs. data = pad = 0 is the empty
\* string (also what message.get("audio", "") gives without the field).
NoAudio == [data |-> 0, pad |-> 0]

Payloads ==
    { NoAudio,
      [data |-> 0, pad |-> 4],       \* "====": decodes to b""
      [data |-> 2, pad |-> 0],       \* "QQ": incorrect padding
      [data |-> 266, pad |-> 2],     \* 199 bytes
      [data |-> 267, pad |-> 1],     \* 200 bytes
      [data |-> 1334, pad |-> 2] }   \* 1000 bytes

\* bool(audio_data) of the str
PayloadTruthy(a) == a.data + a.pad > 0

\* base64.b64decode(audio_data) returns (it raises binascii.Error otherwise)
B64Valid(a) ==
    /\ a.data % 4 # 1
    /\ a.pad >= (4 - (a.data % 4)) % 4

\* len(base64.b64decode(audio_data))
B64DecodedLen(a) == (a.data * 6) \div 8

ClientMessages ==
    {[action |-> act, audio |-> NoAudio] :
        act \in {"start_recording", "stop_recording", "ping", "other", "invalid"}}
    \cup {[action |-> "audio_chunk", audio |-> a] : a \in Payloads}

NoMessage == [action |-> "none", audio |-> NoAudio]

\* What the world does to one process_audio_chunks call: pydub converts or
\* not, WhisperModel loads or not, transcription yields text, yields nothing
\* (silence) or raises, and the client is still there for send_json or not.
FlushEnvs ==
    [conv : BOOLEAN, load : BOOLEAN, stt : {"text", "silence", "error"}, send : BOOLEAN]

\* the world of a turn in which process_audio_chunks is not called
QuietEnv == [conv |-> TRUE, load |-> TRUE, stt |-> "silence", send |-> TRUE]

StatusMsg(text) == [type |-> "status", text |-> text]
TranscriptionMsg == [type |-> "transcription", text |-> "full_text"]
ErrorMsg == [type |-> "error", text |-> "str(e)"]
PongMsg == [type |-> "pong", text |-> ""]

\* the arrival numbers of the chunks of a list, in list order
ArrivalsOf(buf) == [i \in 1..Len(buf) |-> buf[i].id]

Combined_Reversed(chunks) == [i \in 1..Len(chunks) |-> chunks[Len(chunks) + 1 - i].id]

\* line 111: b''.join(chunks), as the arrival numbers of the pieces of the
\* joined audio from its first byte to its last
Combined(chunks) == ArrivalsOf(chunks)

RECURSIVE JoinedLen(_)
\* len(b''.join(chunks))
JoinedLen(chunks) ==
    IF chunks = <<>> THEN 0 ELSE Head(chunks).len + JoinedLen(Tail(chunks))

TooSmall_NoGuard(n) == FALSE

\* line 113: if len(audio_data) < 1000
TooSmall(n) == n < MIN_AUDIO_BYTES

OnFlushException_Reports(f) ==
    [f EXCEPT !.outcome = "failed", !.sent = <<ErrorMsg>>]

\* lines 185-187: except Exception: the error is printed, nothing is sent and
\* nothing is raised again
OnFlushException(f) == [f EXCEPT !.outcome = "failed"]

\* process_audio_chunks(websocket, chunks): what the call did. `loaded`: the
\* model attribute is set on entry. Every exception is caught at line 185.
process_audio_chunks(chunks, trigger, env, loaded) ==
    LET n == JoinedLen(chunks)
        base == [trigger |-> trigger, chunks |-> chunks,
                 audio_data |-> Combined(chunks), bytes |-> n,
                 wav |-> "none", loaded_model |-> FALSE, transcribed |-> FALSE,
                 sent |-> <<>>, model |-> loaded, outcome |-> "skipped",
                 peer_ok |-> TRUE]
        path == IF env.conv THEN "wav" ELSE "webm"
    IN  IF TooSmall(n) THEN base
        ELSE IF ~loaded /\ ~env.load
        THEN OnFlushException([base EXCEPT !.wav = path])
        ELSE LET ready == [base EXCEPT !.wav = path, !.loaded_model = ~loaded,
                                       !.model = TRUE, !.transcribed = TRUE]
             IN  CASE env.stt = "error" -> OnFlushException(ready)
                   [] env.stt = "silence" -> [ready EXCEPT !.outcome = "silence"]
                   [] env.stt = "text" /\ env.send ->
                        [ready EXCEPT !.outcome = "text", !.sent = <<TranscriptionMsg>>]
                   [] OTHER ->
                        OnFlushException([ready EXCEPT !.peer_ok = FALSE])

ShouldFlushOnChunk_Above(buf) == Len(buf) > FLUSH_THRESHOLD

\* line 66: if len(audio_chunks) >= 5
ShouldFlushOnChunk(buf) == Len(buf) >= FLUSH_THRESHOLD

ShouldFlushOnStop_AtThreshold(buf) == Len(buf) >= FLUSH_THRESHOLD

\* line 75: if audio_chunks
ShouldFlushOnStop(buf) == buf # <<>>

BufferAfterFlush_Kept(buf) == buf

BufferAfterFlush_KeepsLast(buf) == <<buf[Len(buf)]>>

BufferOnStart_Kept(buf) == buf

\* line 52: audio_chunks = []
BufferOnStart(buf) == <<>>

\* lines 68 and 77: audio_chunks = []
BufferAfterFlush(buf) == <<>>

AppendsChunk_AnyState(rec, audio) == PayloadTruthy(audio)

\* lines 59-62: if is_recording: ... if audio_data:
AppendsChunk(rec, audio) == rec /\ PayloadTruthy(audio)

VoiceInit ==
    /\ wsState = "closed"
    /\ is_recording = FALSE
    /\ audio_chunks = <<>>
    /\ whisperLoaded = FALSE
    /\ nextChunk = 1
    /\ lastMsg = NoMessage
    /\ flushed = <<>>
    /\ sentNow = <<>>
    /\ voiceMsgs = 0
    /\ passed = <<>>
    /\ dropped = {}

\* voice_stream up to the loop (lines 34-40)
VoiceConnect ==
    /\ wsState = "closed"
    /\ wsState' = "open"
    /\ is_recording' = FALSE
    /\ audio_chunks' = <<>>
    /\ lastMsg' = NoMessage
    /\ flushed' = <<>>
    /\ sentNow' = <<>>
    /\ UNCHANGED <<whisperLoaded, nextChunk, voiceMsgs, passed, dropped>>
    /\ UNCHANGED notVoiceVars

\* the client goes away while the handler waits: receive_text raises
\* WebSocketDisconnect (lines 87-88)
VoiceDisconnect ==
    /\ wsState = "open"
    /\ wsState' = "closed"
    /\ UNCHANGED <<is_recording, audio_chunks, whisperLoaded, nextChunk, lastMsg,
                   flushed, sentNow, voiceMsgs, passed, dropped>>
    /\ UNCHANGED notVoiceVars

\* an exception reaches line 89: an error message is sent and the handler ends
HandlerRaises ==
    /\ wsState' = "closed"
    /\ sentNow' = <<ErrorMsg>>
    /\ flushed' = <<>>
    /\ UNCHANGED <<is_recording, audio_chunks, whisperLoaded, nextChunk>>

\* One turn of the loop of voice_stream (lines 43-85): a message is received
\* and handled to the end, process_audio_chunks included.
VoiceReceive(msg, env) ==
    /\ wsState = "open"
    /\ voiceMsgs < MaxVoiceMsgs
    /\ voiceMsgs' = voiceMsgs + 1
    /\ lastMsg' = msg
    /\ UNCHANGED notVoiceVars
    /\ CASE msg.action = "invalid" -> HandlerRaises
         [] msg.action = "start_recording" ->
              /\ is_recording' = TRUE
              /\ audio_chunks' = BufferOnStart(audio_chunks)
              /\ sentNow' = <<StatusMsg("Recording started")>>
              /\ flushed' = <<>>
              /\ UNCHANGED <<wsState, whisperLoaded, nextChunk>>
         [] msg.action = "audio_chunk" ->
              IF AppendsChunk(is_recording, msg.audio)
              THEN IF ~B64Valid(msg.audio)
                   THEN HandlerRaises
                   ELSE LET chunk == [id |-> nextChunk, len |-> B64DecodedLen(msg.audio)]
                            buf == Append(audio_chunks, chunk)
                        IN  /\ nextChunk' = nextChunk + 1
                            /\ UNCHANGED is_recording
                            /\ IF ShouldFlushOnChunk(buf)
                               THEN LET f == process_audio_chunks(buf, "chunk", env,
                                                                  whisperLoaded)
                                    IN  /\ flushed' = <<f>>
                                        /\ sentNow' = f.sent
                                        /\ whisperLoaded' = f.model
                                        /\ audio_chunks' = BufferAfterFlush(buf)
                                        /\ wsState' = IF f.peer_ok THEN "open" ELSE "closed"
                               ELSE /\ audio_chunks' = buf
                                    /\ flushed' = <<>>
                                    /\ sentNow' = <<>>
                                    /\ UNCHANGED <<wsState, whisperLoaded>>
              ELSE /\ flushed' = <<>>
                   /\ sentNow' = <<>>
                   /\ UNCHANGED <<wsState, is_recording, audio_chunks, whisperLoaded,
                                  nextChunk>>
         [] msg.action = "stop_recording" ->
              /\ is_recording' = FALSE
              /\ UNCHANGED nextChunk
              /\ IF ShouldFlushOnStop(audio_chunks)
                 THEN LET f == process_audio_chunks(audio_chunks, "stop", env,
                                                    whisperLoaded)
                      IN  /\ flushed' = <<f>>
                          /\ whisperLoaded' = f.model
                          /\ audio_chunks' = BufferAfterFlush(audio_chunks)
                          /\ IF f.peer_ok
                             THEN /\ sentNow' = f.sent \o <<StatusMsg("Recording stopped")>>
                                  /\ UNCHANGED wsState
                             ELSE /\ sentNow' = f.sent
                                  /\ wsState' = "closed"
                 ELSE /\ flushed' = <<>>
                      /\ sentNow' = <<StatusMsg("Recording stopped")>>
                      /\ UNCHANGED <<wsState, audio_chunks, whisperLoaded>>
         [] msg.action = "ping" ->
              /\ sentNow' = <<PongMsg>>
              /\ flushed' = <<>>
              /\ UNCHANGED <<wsState, is_recording, audio_chunks, whisperLoaded, nextChunk>>
         [] OTHER ->
              /\ sentNow' = <<>>
              /\ flushed' = <<>>
              /\ UNCHANGED <<wsState, is_recording, audio_chunks, whisperLoaded, nextChunk>>
    /\ passed' = IF flushed' = <<>> THEN passed
                 ELSE passed \o flushed'[1].audio_data
    /\ dropped' = IF msg.action = "start_recording"
                  THEN dropped \cup {audio_chunks[i].id : i \in 1..Len(audio_chunks)}
                  ELSE dropped

\* handling msg in the current state calls process_audio_chunks
CallsProcess(msg) ==
    \/ /\ msg.action = "audio_chunk"
       /\ AppendsChunk(is_recording, msg.audio) /\ B64Valid(msg.audio)
       /\ ShouldFlushOnChunk(Append(audio_chunks, msg.audio))
    \/ /\ msg.action = "stop_recording"
       /\ ShouldFlushOnStop(audio_chunks)

VoiceNext ==
    \/ VoiceConnect
    \/ VoiceDisconnect
    \/ \E msg \in ClientMessages :
          \E env \in (IF CallsProcess(msg) THEN FlushEnvs ELSE {QuietEnv}) :
              VoiceReceive(msg, env)

-----------------------------------------------------------------------------

\* ---------------------------------------------------------------------------
\* services/supabase.py

MaxStoreCalls == 3

\* Python None where a str is expected
NONE == "<None>"

\* {**d, k: v}
DictWith(d, k, v) == [x \in DOMAIN d \cup {k} |-> IF x = k THEN v ELSE d[x]]

StoreUsers == {"u1", "u2"}

\* the dicts the callers pass: entry.dict() with its timestamp filled in
\* (routes/tracking.py) and the dict built by send_message (routes/chat.py)
StoreEntries ==
    [user_id : StoreUsers, type : {"sleep", "gym"}, value : {6}, notes : {NONE},
     timestamp : {1, 2}]

ChatRoles == {"user", "assistant"}

\* SUPABASE_URL and SUPABASE_KEY as the process may find them
SupabaseUrls == {"", "https://your-project.supabase.co", "https://abc.supabase.co"}
SupabaseKeys == {"", "your_supabase_anon_key", "anon-key"}

\* supabase_url.startswith("https://your-project")
IsPlaceholderUrl(url) == url = "https://your-project.supabase.co"

\* lines 10-21: the module attribute after import; connects: create_client
\* returns instead of raising
ImportSupabase(url, key, connects) ==
    IF url # "" /\ key # "" /\ ~IsPlaceholderUrl(url) /\ key # "your_supabase_anon_key"
    THEN IF connects THEN "client" ELSE "None"
    ELSE "None"

IsMock_Never(client) == FALSE

\* if not supabase
IsMock(client) == client = "None"

Returned(v) == [raised |-> FALSE, value |-> v]
Raised(e) == [raised |-> TRUE, value |-> e]
NoCall == [op |-> "none"]

MockSaved_IdOnly(entry) ==
    IF "type" \notin DOMAIN entry THEN Raised("KeyError")
    ELSE Returned([x \in {"id"} |-> "mock-id-123"])

\* lines 27-28: entry['type'] is read for the log line, then the entry is
\* returned with the placeholder id
MockSaved(entry) ==
    IF "type" \notin DOMAIN entry THEN Raised("KeyError")
    ELSE Returned(DictWith(entry, "id", "mock-id-123"))

\* line 51
MockSavedMessage(user_id, role, message) ==
    Returned([id |-> "mock-msg-123", user_id |-> user_id, role |-> role,
              message |-> message])

\* what the database does with an insert: stores the row and returns it,
\* stores it and returns no data, returns no data without storing, or fails
InsertOutcomes == {"row", "stored_no_data", "no_data", "error"}
SelectOutcomes == {"rows", "error"}

\* lines 30-31 and 58-59: result.data[0] if result.data else None
InsertResult(row, out) ==
    CASE out = "row" -> Returned(row)
      [] out = "error" -> Raised("APIError")
      [] OTHER -> Returned(NONE)

TableAfterInsert(table, row, out) ==
    IF out \in {"row", "stored_no_data"} THEN Append(table, row) ELSE table

Reverse(s) == [i \in 1..Len(s) |-> s[Len(s) + 1 - i]]

RECURSIVE ByKeysDesc(_, _, _)
\* the rows with the greatest key, then those with the next one, and so on
ByKeysDesc(rows, col, keys) ==
    IF keys = {} THEN <<>>
    ELSE LET top == CHOOSE k \in keys : \A x \in keys : x <= k
         IN  SelectSeq(rows, LAMBDA r : r[col] = top)
                 \o ByKeysDesc(rows, col, keys \ {top})

\* .order(col, desc=True); rows with equal keys come latest insertion first
OrderDesc(rows, col) ==
    ByKeysDesc(Reverse(rows), col, {rows[i][col] : i \in 1..Len(rows)})

\* .limit(n)
Limit(rows, n) == IF Len(rows) <= n THEN rows ELSE SubSeq(rows, 1, n)

\* lines 39-45: the rows of the user, of the type if one is given, latest
\* timestamp first, at most limit of them
SelectTracking(table, user_id, type, limit) ==
    LET mine == SelectSeq(table, LAMBDA r : r.user_id = user_id)
        typed == IF type # NONE /\ type # ""
                 THEN SelectSeq(mine, LAMBDA r : r.type = type)
                 ELSE mine
    IN  Limit(OrderDesc(typed, "timestamp"), limit)

\* lines 67-73: created_at grows with insertion, so latest insertion first
SelectChat(table, user_id, limit) ==
    Limit(Reverse(SelectSeq(table, LAMBDA r : r.user_id = user_id)), limit)

MaxRows == 3

\* rows the hosted table tracking_logs may hold when the process starts
StoredRows ==
    {DictWith(e, "id", "uuid") :
        e \in [user_id : {"u1"}, type : {"sleep"}, value : {6, 8}, notes : {NONE},
               timestamp : {2, 9}]
           \cup [user_id : {"u1"}, type : {"water"}, value : {6, 8}, notes : {NONE},
                  timestamp : {9}]
           \cup [user_id : {"u1"}, type : {"gym"}, value : {1}, notes : {NONE},
                  timestamp : {9}]
           \cup [user_id : {"u1"}, type : {"mood"}, value : {1}, notes : {"happy", "sad"},
                  timestamp : {9}]
           \cup [user_id : {"u2"}, type : {"sleep"}, value : {8}, notes : {NONE},
                  timestamp : {9}]}

\* a user with more rows than get_dashboard fetches: one early night of 6
\* hours, then a night of 8 hours logged 100 times
BusyTable ==
    [i \in 1..101 |->
        [user_id |-> "u1", type |-> "sleep", value |-> IF i = 1 THEN 6 ELSE 8,
         notes |-> NONE, timestamp |-> IF i = 1 THEN 2 ELSE 9, id |-> "uuid"]]

StoredTables == UNION {[1..n -> StoredRows] : n \in 0..MaxRows} \cup {BusyTable}

StoreInit ==
    /\ \E url \in SupabaseUrls, key \in SupabaseKeys, connects \in BOOLEAN :
           supabase = ImportSupabase(url, key, connects)
    /\ tracking_logs \in StoredTables
    /\ chat_messages = <<>>
    /\ dbCalls = 0
    /\ gwLog = <<>>
    /\ gwCall = NoCall
    /\ gwResult = Returned(NONE)

\* a gateway operation is entered
GatewayEntered(op) ==
    /\ gwLog' = Append(gwLog, op)
    /\ UNCHANGED supabase
    /\ UNCHANGED notStoreVars

\* a gateway operation is called by a route handler of tracking.py or
\* analytics.py, or directly
GatewayCalled(op) ==
    /\ Len(gwLog) < MaxStoreCalls
    /\ GatewayEntered(op)

\* save_tracking_entry(entry), lines 24-31, whoever calls it
SaveTrackingEntry(entry, out) ==
    /\ GatewayEntered("save_tracking_entry")
    /\ gwCall' = [op |-> "save_tracking_entry", entry |-> entry]
    /\ UNCHANGED chat_messages
    /\ IF IsMock(supabase)
       THEN /\ gwResult' = MockSaved(entry)
            /\ UNCHANGED <<tracking_logs, dbCalls>>
       ELSE LET row == DictWith(entry, "id", "uuid")
            IN  /\ gwResult' = InsertResult(row, out)
                /\ tracking_logs' = TableAfterInsert(tracking_logs, row, out)
                /\ dbCalls' = dbCalls + 1

\* save_tracking_entry called by log_entry (routes/tracking.py)
save_tracking_entry(entry, out) ==
    /\ Len(gwLog) < MaxStoreCalls
    /\ SaveTrackingEntry(entry, out)
    /\ UNCHANGED <<dashVars, chatVars>>

\* get_tracking_entries(user_id, type, limit), lines 33-45, whoever calls it
FetchTrackingEntries(user_id, type, limit, out) ==
    /\ GatewayCalled("get_tracking_entries")
    /\ gwCall' = [op |-> "get_tracking_entries", user_id |-> user_id, type |-> type,
                  limit |-> limit]
    /\ UNCHANGED <<tracking_logs, chat_messages>>
    /\ IF IsMock(supabase)
       THEN /\ gwResult' = Returned(<<>>)
            /\ UNCHANGED dbCalls
       ELSE /\ gwResult' = IF out = "error" THEN Raised("APIError")
                            ELSE Returned(SelectTracking(tracking_logs, user_id, type,
                                                         limit))
            /\ dbCalls' = dbCalls + 1

\* get_tracking_entries called by get_entries (routes/tracking.py line 32)
get_tracking_entries(user_id, type, limit, out) ==
    /\ FetchTrackingEntries(user_id, type, limit, out)
    /\ UNCHANGED <<dashVars, chatVars>>

\* save_chat_message(user_id, role, message), lines 47-59, whoever calls it
SaveChatMessage(user_id, role, message, out) ==
    /\ GatewayEntered("save_chat_message")
    /\ gwCall' = [op |-> "save_chat_message", user_id |-> user_id, role |-> role,
                  message |-> message]
    /\ UNCHANGED tracking_logs
    /\ IF IsMock(supabase)
       THEN /\ gwResult' = MockSavedMessage(user_id, role, message)
            /\ UNCHANGED <<chat_messages, dbCalls>>
       ELSE LET row == [id |-> "uuid", user_id |-> user_id, role |-> role,
                        message |-> message]
            IN  /\ gwResult' = InsertResult(row, out)
                /\ chat_messages' = TableAfterInsert(chat_messages, row, out)
                /\ dbCalls' = dbCalls + 1

save_chat_message(user_id, role, message, out) ==
    /\ Len(gwLog) < MaxStoreCalls
    /\ SaveChatMessage(user_id, role, message, out)
    /\ UNCHANGED <<dashVars, chatVars>>

\* get_chat_history(user_id, limit), lines 61-73, whoever calls it
GetChatHistory(user_id, limit, out) ==
    /\ GatewayEntered("get_chat_history")
    /\ gwCall' = [op |-> "get_chat_history", user_id |-> user_id, limit |-> limit]
    /\ UNCHANGED <<tracking_logs, chat_messages>>
    /\ IF IsMock(supabase)
       THEN /\ gwResult' = Returned(<<>>)
            /\ UNCHANGED dbCalls
       ELSE /\ gwResult' = IF out = "error" THEN Raised("APIError")
                            ELSE Returned(SelectChat(chat_messages, user_id, limit))
            /\ dbCalls' = dbCalls + 1

\* get_chat_history called by get_history (routes/chat.py line 70)
get_chat_history(user_id, limit, out) ==
    /\ Len(gwLog) < MaxStoreCalls
    /\ GetChatHistory(user_id, limit, out)
    /\ UNCHANGED <<dashVars, chatVars>>

\* the outcomes the database can give; none is drawn in mock mode
OutcomesOf(outs) == IF IsMock(supabase) THEN {"unused"} ELSE outs

StoreNext ==
    \/ \E entry \in StoreEntries, out \in OutcomesOf(InsertOutcomes) :
          save_tracking_entry(entry, out)
    \/ \E u \in StoreUsers, type \in {NONE, "sleep"}, limit \in {1, 30},
          out \in OutcomesOf(SelectOutcomes) :
          get_tracking_entries(u, type, limit, out)
    \/ \E u \in StoreUsers, role \in ChatRoles, out \in OutcomesOf(InsertOutcomes) :
          save_chat_message(u, role, "hi", out)
    \/ \E u \in StoreUsers, limit \in {1, 10}, out \in OutcomesOf(SelectOutcomes) :
          get_chat_history(u, limit, out)

\* ---------------------------------------------------------------------------
\* routes/analytics.py

\* datetime.now() of the request, as a day number
DashNow == 10

\* line 17: limit=100
DASH_LIMIT == 100

DashDays == {7, 30}

RECURSIVE GCD(_, _)
GCD(a, b) == IF b = 0 THEN a ELSE GCD(b, a % b)

\* the float n / d, kept exact as a fraction in lowest terms
Quotient(n, d) == [num |-> n \div GCD(n, d), den |-> d \div GCD(n, d)]

\* the int 0 of the else branches
Zero == [num |-> 0, den |-> 1]

RECURSIVE SumValues(_)
\* sum(e["value"] for e in entries)
SumValues(entries) ==
    IF entries = <<>> THEN 0 ELSE Head(entries).value + SumValues(Tail(entries))

\* sum(float(e["notes"] == "happy") for e in entries)
SumHappy(entries) == Len(SelectSeq(entries, LAMBDA e : e.notes = "happy"))

OfType(entries, type) == SelectSeq(entries, LAMBDA e : e.type = type)

Average_OverAll(total, entries, all) ==
    IF entries # <<>> THEN Quotient(total, Len(all)) ELSE Zero

\* total / len(entries) if entries else 0 (lines 33, 34, 36); all: the
\* entries of every type in the window
Average(total, entries, all) ==
    IF entries # <<>> THEN Quotient(total, Len(entries)) ELSE Zero

\* line 23: datetime.fromisoformat(e["timestamp"]) > cutoff_date
InWindow(e, days) == e.timestamp > DashNow - days

DEFAULT_INSIGHTS == "default insights"
InsightOutcomes == {"json", "failure"}

\* services/gemini.py generate_insights: the parsed model answer, or the three
\* default insights on any failure
generate_insights(answer) == IF answer = "json" THEN "model answer" ELSE DEFAULT_INSIGHTS

NoDashboard == [status |-> 0]

\* lines 19-44, from the entries the gateway returned
Dashboard(all_entries, days, answer) ==
    LET recent_entries == SelectSeq(all_entries, LAMBDA e : InWindow(e, days))
        sleep_entries == OfType(recent_entries, "sleep")
        water_entries == OfType(recent_entries, "water")
        gym_entries == OfType(recent_entries, "gym")
        mood_entries == OfType(recent_entries, "mood")
    IN  [status |-> 200,
         sleep_avg |-> Average(SumValues(sleep_entries), sleep_entries, recent_entries),
         water_avg |-> Average(SumValues(water_entries), water_entries, recent_entries),
         gym_count |-> Len(gym_entries),
         mood_avg |-> Average(SumHappy(mood_entries), mood_entries, recent_entries),
         total_entries |-> Len(recent_entries),
         insights |-> generate_insights(answer)]

DashInit ==
    /\ dashCall = [user_id |-> NONE, days |-> 0]
    /\ dashResult = NoDashboard

\* get_dashboard(user_id, days), lines 8-47
get_dashboard(user_id, days, out, answer) ==
    /\ FetchTrackingEntries(user_id, NONE, DASH_LIMIT, out)
    /\ dashCall' = [user_id |-> user_id, days |-> days]
    /\ dashResult' = IF gwResult'.raised THEN [status |-> 500]
                      ELSE Dashboard(gwResult'.value, days, answer)
    /\ UNCHANGED chatVars

DashNext ==
    \E user_id \in StoreUsers, days \in DashDays, out \in OutcomesOf(SelectOutcomes),
       answer \in InsightOutcomes :
        get_dashboard(user_id, days, out, answer)

\* ---------------------------------------------------------------------------
\* services/ai_provider.py, services/providers/gemini_provider.py,
\* services/providers/openrouter_provider.py

MaxAiCalls == 4

\* values of AI_PROVIDER
Flags == {"unset", "gemini", "Gemini", "openrouter", "claude"}

\* os.getenv("AI_PROVIDER", "openrouter").lower()
provider_name(flag) ==
    CASE flag = "unset" -> "openrouter"
      [] flag = "Gemini" -> "gemini"
      [] OTHER -> flag

KeySets == [gemini : BOOLEAN, openrouter : BOOLEAN]

NoProvider == [class |-> "None", id |-> 0]

\* get_ai_provider(), lines 54-84, with the constructors (gemini_provider.py
\* lines 29-38, openrouter_provider.py lines 26-34): the new instance, or
\* ValueError for an unknown name or a missing API key
get_ai_provider(flag, keys, id) ==
    LET name == provider_name(flag)
    IN  CASE name = "gemini" /\ keys.gemini ->
               Returned([class |-> "GeminiProvider", id |-> id])
          [] name = "openrouter" /\ keys.openrouter ->
               Returned([class |-> "OpenRouterProvider", id |-> id])
          [] OTHER -> Raised("ValueError")

IsNone_Always(p) == TRUE

\* line 94: if _ai_provider is None
IsNone(p) == p = NoProvider

\* ---- what the upstream model does to one call

\* texts of a JSON answer, as pieces: bare, inside a markdown code fence, or
\* not JSON at all
JsonTexts ==
    {<<"{json}">>, <<"<fence json>", "{json}", "<fence>">>, <<"<fence>", "{json}", "<fence>">>,
     <<"plain words">>, <<>>}

\* texts of a quote answer: bare or wrapped in quotation marks
QuoteAnswers ==
    {<<"words">>, <<"<double quote>", "words", "<double quote>">>, <<"<single quote>", "words", "<single quote>">>, <<"<double quote>">>, <<>>}

\* "raises": the API call raises (network error, HTTP error status);
\* "notjson": the HTTP body is not JSON (OpenRouter, response.json());
\* "badshape": no choices[0].message.content (OpenRouter) or response.text
\* raises (Gemini); "null": content is null (OpenRouter); "text": an answer
Upstream(class, texts) ==
    {[kind |-> k, text |-> <<>>] :
        k \in IF class = "OpenRouterProvider"
              THEN {"raises", "notjson", "badshape", "null"}
              ELSE {"raises", "badshape"}}
    \cup {[kind |-> "text", text |-> t] : t \in texts}

\* _clean_json_response (gemini_provider.py lines 106-114) and
\* openrouter_provider.py lines 109-116
CleanJson(text) ==
    LET a == IF text # <<>> /\ Head(text) = "<fence json>" THEN Tail(text) ELSE text
        b == IF a # <<>> /\ Head(a) = "<fence>" THEN Tail(a) ELSE a
    IN  IF b # <<>> /\ b[Len(b)] = "<fence>" THEN SubSeq(b, 1, Len(b) - 1) ELSE b

\* json.loads(text) returns
IsJson(text) == text = <<"{json}">>

\* lines 97-100 and 193-196: one pair of surrounding marks of each kind is
\* removed
Unquote(text) ==
    LET cut(t, mark) == IF t # <<>> /\ Head(t) = mark /\ t[Len(t)] = mark
                        THEN IF Len(t) = 1 THEN <<>> ELSE SubSeq(t, 2, Len(t) - 1)
                        ELSE t
    IN  cut(cut(text, "<double quote>"), "<single quote>")

\* the exception the body of the try block raises before any parsing, or "none"
UpstreamException(up) ==
    CASE up.kind = "raises" -> "RequestException"
      [] up.kind = "notjson" -> "JSONDecodeError"
      [] up.kind = "badshape" -> "KeyError"
      [] up.kind = "null" -> "AttributeError"
      [] OTHER -> "none"

APOLOGY == "I'm having trouble processing that. Could you rephrase?"
SHORT_APOLOGY == "I'm having trouble processing that."
QUOTE_FALLBACK == "Small steps every day lead to big changes, Akash."

ChatOnException_Raises(class, exc, up) == Raised(exc)

\* the except clauses of chat (gemini_provider.py lines 55-67,
\* openrouter_provider.py lines 120-132)
ChatOnException(class, exc, up) ==
    IF exc = "JSONDecodeError"
    THEN Returned([response |-> IF up.kind # "text" THEN <<SHORT_APOLOGY>>
                                ELSE IF class = "GeminiProvider" THEN up.text
                                ELSE CleanJson(up.text),
                   extracted_data |-> NONE])
    ELSE Returned([response |-> <<APOLOGY>>, extracted_data |-> NONE, error |-> exc])

\* chat(message, context)
ProviderChat(class, up) ==
    LET exc == UpstreamException(up)
    IN  IF exc # "none" THEN ChatOnException(class, exc, up)
        ELSE IF IsJson(CleanJson(up.text))
        THEN Returned([response |-> <<"Your friendly response">>,
                       extracted_data |-> "extracted"])
        ELSE ChatOnException(class, "JSONDecodeError", up)

\* generate_insights(tracking_data): bare except at lines 80 and 169
ProviderInsights(class, up) ==
    IF UpstreamException(up) = "none" /\ IsJson(CleanJson(up.text))
    THEN Returned("model answer")
    ELSE Returned(DEFAULT_INSIGHTS)

\* generate_daily_quote(user_name): except Exception at lines 102 and 198
ProviderQuote(class, up) ==
    IF UpstreamException(up) = "none"
    THEN Returned(Unquote(up.text))
    ELSE Returned(<<QUOTE_FALLBACK>>)

NoOp == [op |-> "none", up |-> [kind |-> "none", text |-> <<>>]]

AiInit ==
    /\ envFlag \in Flags
    /\ envKeys \in KeySets
    /\ ai_provider = NoProvider
    /\ constructed = 0
    /\ flagReads = 0
    /\ aiLog = <<>>
    /\ aiGot = Returned(NoProvider)
    /\ aiOp = NoOp
    /\ aiResult = Returned(NONE)

\* the environment of the process is changed
SetEnv(flag, keys) ==
    /\ <<flag, keys>> # <<envFlag, envKeys>>
    /\ envFlag' = flag
    /\ envKeys' = keys
    /\ UNCHANGED <<ai_provider, constructed, flagReads, aiLog, aiGot, aiOp, aiResult>>
    /\ UNCHANGED notAiVars

\* get_ai(), lines 91-96
get_ai ==
    /\ Len(aiLog) < MaxAiCalls
    /\ aiLog' = Append(aiLog, "get_ai")
    /\ IF IsNone(ai_provider)
       THEN LET made == get_ai_provider(envFlag, envKeys, constructed + 1)
            IN  /\ flagReads' = flagReads + 1
                /\ aiGot' = made
                /\ IF made.raised
                   THEN UNCHANGED <<ai_provider, constructed>>
                   ELSE /\ ai_provider' = made.value
                        /\ constructed' = constructed + 1
       ELSE /\ aiGot' = Returned(ai_provider)
            /\ UNCHANGED <<ai_provider, constructed, flagReads>>
    /\ UNCHANGED <<envFlag, envKeys, aiOp, aiResult>>
    /\ UNCHANGED notAiVars

\* a method of the provider instance is called
ProviderCall(op, up) ==
    /\ ~IsNone(ai_provider)
    /\ Len(aiLog) < MaxAiCalls
    /\ aiLog' = Append(aiLog, op)
    /\ aiOp' = [op |-> op, up |-> up]
    /\ aiResult' = CASE op = "chat" -> ProviderChat(ai_provider.class, up)
                      [] op = "generate_insights" ->
                           ProviderInsights(ai_provider.class, up)
                      [] OTHER -> ProviderQuote(ai_provider.class, up)
    /\ UNCHANGED <<envFlag, envKeys, ai_provider, constructed, flagReads, aiGot>>
    /\ UNCHANGED notAiVars

AiNext ==
    \/ \E flag \in Flags, keys \in KeySets : SetEnv(flag, keys)
    \/ get_ai
    \/ \E up \in Upstream(ai_provider.class, JsonTexts) : ProviderCall("chat", up)
    \/ \E up \in Upstream(ai_provider.class, JsonTexts) :
          ProviderCall("generate_insights", up)
    \/ \E up \in Upstream(ai_provider.class, QuoteAnswers) :
          ProviderCall("generate_daily_quote", up)

\* ---------------------------------------------------------------------------
\* routes/chat.py, with chat_with_ai of services/gemini.py

MaxChatRequests == 2

\* line 19: limit=5
HISTORY_LIMIT == 5

\* an item of extracted_data: its key and its JSON value, which is null, a
\* number, a string or a boolean (True is the int 1)
Field(key, kind, num, str) ==
    [key |-> key, value |-> [kind |-> kind, num |-> num, str |-> str]]

\* extracted_data: None, a dict (its items in order) or something else
NoExtract == [kind |-> "none", items |-> <<>>]
ExtractDict(items) == [kind |-> "dict", items |-> items]
ExtractText == [kind |-> "str", items |-> <<>>]

\* a dict with the keys response and extracted_data
Answer(extracted) ==
    [kind |-> "dict", has_response |-> TRUE, response |-> "well done",
     extracted_data |-> extracted, error |-> FALSE]

NoAnswer ==
    [kind |-> "unset", has_response |-> FALSE, response |-> "",
     extracted_data |-> NoExtract, error |-> FALSE]

\* what json.loads(response.text) can give when the text is JSON
JsonAnswers ==
    { Answer(NoExtract),
      Answer(ExtractDict(<<>>)),
      Answer(ExtractDict(<<Field("sleep_hours", "num", 8, ""),
                           Field("mood", "str", 0, "good")>>)),
      Answer(ExtractDict(<<Field("sleep_hours", "null", 0, ""),
                           Field("steps", "num", 5000, ""),
                           Field("gym_session", "bool", 1, "")>>)),
      Answer(ExtractDict(<<Field("sleep_hours", "null", 0, ""),
                           Field("water_liters", "null", 0, "")>>)),
      Answer(ExtractText),
      [Answer(NoExtract) EXCEPT !.has_response = FALSE, !.response = ""],
      [NoAnswer EXCEPT !.kind = "list"] }

\* what generate_content and json.loads do for one prompt
ChatUpstreams ==
    {[class |-> "json", value |-> a] : a \in JsonAnswers}
        \cup {[class |-> "text", value |-> NoAnswer], [class |-> "error", value |-> NoAnswer]}

\* services/gemini.py lines 53-69
chat_with_ai(up) ==
    CASE up.class = "json" -> up.value
      [] up.class = "text" ->
            [Answer(NoExtract) EXCEPT !.response = "plain text"]
      [] OTHER ->
            [Answer(NoExtract) EXCEPT
                !.response = "I'm having trouble processing that. Could you rephrase?",
                !.error = TRUE]

\* lines 38-45
type_map ==
    [sleep_hours |-> "sleep", water_liters |-> "water", gym_session |-> "gym",
     mood |-> "mood", work_hours |-> "work", learning_hours |-> "learning"]

IsNotNone_Always(value) == TRUE

\* line 36: if value is not None
IsNotNone(value) == value.kind # "null"

\* lines 36 and 47: the item gets a tracking entry
Saveable(item) == IsNotNone(item.value) /\ item.key \in DOMAIN type_map

\* line 32: if ai_response.get("extracted_data")
HasExtracted(answer) ==
    \/ answer.extracted_data.kind = "dict" /\ answer.extracted_data.items # <<>>
    \/ answer.extracted_data.kind = "str"

\* line 29: ai_response["response"] can be evaluated
HasResponse(answer) == answer.kind = "dict" /\ answer.has_response

\* lines 48-54, with datetime.now() of the dashboard's clock
TrackingEntryOf(user_id, item) ==
    [user_id |-> user_id,
     type |-> type_map[item.key],
     value |-> IF item.value.kind \in {"num", "bool"} THEN item.value.num ELSE 1,
     notes |-> IF item.value.kind = "str" THEN item.value.str ELSE NONE,
     timestamp |-> DashNow]

\* position in todo of the first item that gets an entry, 0 if there is none
NextSaveable(todo) ==
    IF \E i \in 1..Len(todo) : Saveable(todo[i])
    THEN CHOOSE i \in 1..Len(todo) :
            Saveable(todo[i]) /\ \A j \in 1..(i - 1) : ~Saveable(todo[j])
    ELSE 0

ChatRequestsIn == [user_id : {"u1"}, message : {"slept 8 hours"}]

ChatInit ==
    /\ chatPc = "idle"
    /\ chatReq = [user_id |-> NONE, message |-> NONE]
    /\ ai_response = NoAnswer
    /\ chatTodo = <<>>
    /\ chatLog = <<>>
    /\ chatResult = [status |-> 0]
    /\ chatRequests = 0

\* line 63: except Exception -> HTTPException(500)
ChatRaises ==
    /\ chatPc' = "done"
    /\ chatResult' = [status |-> 500]

\* the gateway call just made raised or returned; next is the position the
\* handler reaches when it returned
ChatAfterCall(next) ==
    /\ chatLog' = Append(chatLog, gwCall')
    /\ IF gwResult'.raised THEN ChatRaises
       ELSE chatPc' = next /\ chatResult' = [status |-> 0]

\* send_message up to line 19: the history is read
ChatBegin(req, out) ==
    /\ chatPc \in {"idle", "done"}
    /\ chatRequests < MaxChatRequests
    /\ chatRequests' = chatRequests + 1
    /\ chatReq' = req
    /\ GetChatHistory(req.user_id, HISTORY_LIMIT, out)
    /\ chatLog' = <<gwCall'>>
    /\ IF gwResult'.raised THEN ChatRaises
       ELSE chatPc' = "history" /\ chatResult' = [status |-> 0]
    /\ ai_response' = NoAnswer
    /\ chatTodo' = <<>>
    /\ UNCHANGED dashVars

\* lines 20-26: the AI answers, then the user message is saved
ChatSaveUser(up, out) ==
    /\ chatPc = "history"
    /\ ai_response' = chat_with_ai(up)
    /\ SaveChatMessage(chatReq.user_id, "user", chatReq.message, out)
    /\ ChatAfterCall("user")
    /\ UNCHANGED <<chatReq, chatTodo, chatRequests, dashVars>>

\* line 29: the assistant response is saved
ChatSaveAssistant(out) ==
    /\ chatPc = "user"
    /\ IF HasResponse(ai_response)
       THEN /\ SaveChatMessage(chatReq.user_id, "assistant", ai_response.response, out)
            /\ ChatAfterCall("assistant")
            /\ chatTodo' = IF ai_response.extracted_data.kind = "dict"
                           THEN ai_response.extracted_data.items ELSE <<>>
       ELSE /\ ChatRaises
            /\ UNCHANGED <<storeVars, notStoreVars, chatLog, chatTodo>>
    /\ UNCHANGED <<chatReq, ai_response, chatRequests, dashVars>>

\* lines 32-55: the loop runs on to its next save_tracking_entry call
ChatSaveTracking(out) ==
    /\ chatPc = "assistant"
    /\ HasExtracted(ai_response)
    /\ ai_response.extracted_data.kind = "dict"
    /\ NextSaveable(chatTodo) # 0
    /\ LET i == NextSaveable(chatTodo)
       IN  /\ SaveTrackingEntry(TrackingEntryOf(chatReq.user_id, chatTodo[i]), out)
           /\ chatTodo' = SubSeq(chatTodo, i + 1, Len(chatTodo))
    /\ ChatAfterCall("assistant")
    /\ UNCHANGED <<chatReq, ai_response, chatRequests, dashVars>>

\* lines 32-61 when no further item gets an entry: the response is returned,
\* unless extracted_data has no items() (line 35)
ChatFinish ==
    /\ chatPc = "assistant"
    /\ IF HasExtracted(ai_response) /\ ai_response.extracted_data.kind # "dict"
       THEN ChatRaises
       ELSE /\ NextSaveable(chatTodo) = 0
            /\ chatPc' = "done"
            /\ chatResult' = [status |-> 200, response |-> ai_response.response,
                              extracted_data |-> ai_response.extracted_data]
    /\ chatTodo' = <<>>
    /\ UNCHANGED <<chatReq, ai_response, chatLog, chatRequests>>
    /\ UNCHANGED <<storeVars, notStoreVars, dashVars>>

ChatNext ==
    \/ \E req \in ChatRequestsIn, out \in OutcomesOf(SelectOutcomes) : ChatBegin(req, out)
    \/ \E up \in ChatUpstreams, out \in OutcomesOf(InsertOutcomes) : ChatSaveUser(up, out)
    \/ \E out \in OutcomesOf(InsertOutcomes) : ChatSaveAssistant(out)
    \/ \E out \in OutcomesOf(InsertOutcomes) : ChatSaveTracking(out)
    \/ ChatFinish

-----------------------------------------------------------------------------

Init == CoachInit /\ QuoteInit /\ VoiceInit /\ StoreInit /\ DashInit /\ AiInit /\ ChatInit

\* the default environment of the provider selector
AiDefault == envFlag = "unset" /\ envKeys = [gemini |-> TRUE, openrouter |-> TRUE]

\* the cache file plays no part outside quotes.py, the database none outside
\* the gateway and the routes that call it
InitNoFile ==
    Init /\ cacheFile = NoFile /\ supabase = "None" /\ tracking_logs = <<>> /\ AiDefault

\* the gateway alone, on empty tables
InitStore == Init /\ cacheFile = NoFile /\ tracking_logs = <<>> /\ AiDefault

SpecStore == InitStore /\ [][StoreNext]_vars

\* the dashboard over whatever the table holds
InitDash == Init /\ cacheFile = NoFile /\ AiDefault

SpecDash == InitDash /\ [][DashNext]_vars

\* the provider selector and the providers, from any environment
InitAi == Init /\ cacheFile = NoFile /\ supabase = "None" /\ tracking_logs = <<>>

SpecAi == InitAi /\ [][AiNext]_vars

SpecCoach == InitNoFile /\ [][CoachNext]_vars

\* the quote endpoint from either state of the cache file
InitQuotes == Init /\ supabase = "None" /\ tracking_logs = <<>> /\ AiDefault

SpecQuotes == InitQuotes /\ [][QuoteNext]_vars

SpecVoice == InitNoFile /\ [][VoiceNext]_vars

\* the chat endpoint on empty tables, in mock mode or against the database
InitChat == Init /\ cacheFile = NoFile /\ tracking_logs = <<>> /\ AiDefault

SpecChat == InitChat /\ [][ChatNext]_vars

-----------------------------------------------------------------------------
(* Properties of the coaching endpoint                                     *)

Is503(o) == o.kind = "response" /\ o.status = SERVICE_UNAVAILABLE

IsOtherHttpError(o) ==
    o.kind = "response" /\ o.status >= 400 /\ o.status # SERVICE_UNAVAILABLE

\* a network failure, or a response without error status that does not parse
IsNetOrParseError(o) ==
    \/ o.kind = "network"
    \/ o.kind = "response" /\ o.status < 400 /\ o.shape # "chat"

Succeeds(o) == o.kind = "response" /\ o.status < 400 /\ o.shape = "chat"

ReturnedFeedbackOf(k) ==
    /\ coachPc = "done"
    /\ Len(coachLog) = k
    /\ coachResult.kind = "feedback"
    /\ coachResult.feedback = Strip(coachLog[k].outcome.content)

\* C1: if the requests to the first k-1 candidates each returned 503 and the
\* request to the k-th succeeded, the endpoint returns the k-th candidate's
\* whitespace-trimmed response text as feedback, for every k up to the
\* length of the list. A 503 is never answered with an error while a
\* candidate is left: the next candidate is the one contacted.
C1_FallbackReturnsKth ==
    \A k \in 1..Len(coachLog) :
        /\ ( /\ \A j \in 1..(k - 1) : Is503(coachLog[j].outcome)
             /\ Succeeds(coachLog[k].outcome) )
           => ReturnedFeedbackOf(k)
        /\ ( /\ \A j \in 1..k : Is503(coachLog[j].outcome)
             /\ k < Len(coachModels) )
           => ( \/ Len(coachLog) > k
                \/ (coachPc = "loop" /\ coachIdx = k + 1) )

\* the last candidate answered after every earlier one returned 503, and its
\* text carried surrounding whitespace
C1_Witness ==
    /\ coachPc = "done"
    /\ Len(coachLog) = Len(coachModels)
    /\ Len(coachLog) = 3
    /\ \A j \in 1..2 : Is503(coachLog[j].outcome)
    /\ Succeeds(coachLog[3].outcome)
    /\ coachLog[3].outcome.content = <<" ", "a">>
    /\ coachResult.feedback = <<"a">>

\* C2: a non-503 HTTP error from any candidate ends the request at that
\* candidate: no later candidate is contacted, and the endpoint fails with an
\* error carrying that HTTP error (no feedback, not "all models unavailable").
C2_OtherHttpErrorStops ==
    \A k \in 1..Len(coachLog) :
        IsOtherHttpError(coachLog[k].outcome)
        => /\ Len(coachLog) = k
           /\ coachPc = "done"
           /\ coachResult.kind = "HTTPException"
           /\ coachResult.http_error = coachLog[k].outcome.status
           /\ coachResult # AllUnavailable

\* the first candidate returned 503 and the second a 429: the third was not
\* contacted
C2_Witness ==
    /\ Len(coachLog) = 2
    /\ Is503(coachLog[1].outcome)
    /\ coachLog[2].outcome.status = 429
    /\ coachPc = "done"
    /\ coachResult.http_error = 429

\* C3: when every candidate was attempted and each attempt failed with 503 or
\* with a network or parse error, the endpoint reports service-unavailable
\* (503) after exactly one attempt per candidate, in list order, and returns
\* no feedback; and it reports that only in this case.
C3_ExhaustedIs503 ==
    LET allFailed ==
            /\ Len(coachLog) = Len(coachModels)
            /\ Len(coachLog) > 0
            /\ \A k \in 1..Len(coachLog) :
                   Is503(coachLog[k].outcome) \/ IsNetOrParseError(coachLog[k].outcome)
    IN  /\ allFailed
           => /\ coachPc = "done"
              /\ coachResult = AllUnavailable
              /\ coachResult.status_code = SERVICE_UNAVAILABLE
              /\ \A k \in 1..Len(coachLog) : coachLog[k].model = coachModels[k]
        /\ coachResult = AllUnavailable => allFailed

\* three attempts, failing in the three retryable ways
C3_Witness ==
    /\ Len(coachLog) = 3
    /\ Is503(coachLog[1].outcome)
    /\ coachLog[2].outcome.kind = "network"
    /\ coachLog[3].outcome.shape = "nullcontent"
    /\ coachResult = AllUnavailable

\* C4: a network error or an unparseable response at a candidate does not end
\* the request: unless it was the last candidate the loop goes on to the next
\* one, and the success of a later candidate reached this way is returned as
\* the feedback.
C4_NetOrParseErrorContinues ==
    \A k \in 1..Len(coachLog) :
        IsNetOrParseError(coachLog[k].outcome)
        => /\ k < Len(coachModels)
              => \/ Len(coachLog) > k
                 \/ (coachPc = "loop" /\ coachIdx = k + 1)
           /\ \A j \in (k + 1)..Len(coachLog) :
                  Succeeds(coachLog[j].outcome) => ReturnedFeedbackOf(j)

\* a timeout on the first candidate, an unparseable body on the second, and
\* the third candidate's answer returned
C4_Witness ==
    /\ Len(coachLog) = 3
    /\ coachLog[1].outcome.kind = "network"
    /\ coachLog[2].outcome.shape = "notjson"
    /\ Succeeds(coachLog[3].outcome)
    /\ ReturnedFeedbackOf(3)
    /\ coachResult.feedback # <<>>

-----------------------------------------------------------------------------
(* Properties of the daily-quote endpoint                                  *)

\* the call of slot c began on the date of a response that had already been
\* returned: it is the second of two calls on one calendar date
SecondCallSameDate(c) ==
    /\ quoteCalls > 0
    /\ qPrev[c] # NoResponse
    /\ qPrev[c].date = qStartDate[c]

\* C5: of two calls on the same calendar date, the second beginning after
\* the first returned, the second does not invoke the generator and returns
\* the first call's quote string with cached = TRUE, whatever that string is.
C5_SecondCallCached ==
    \A c \in QuoteClients :
        SecondCallSameDate(c)
        => /\ ~qInvoked[c]
           /\ qPc[c] = "idle"
           /\ qResp[c].cached
           /\ qResp[c].quote = qPrev[c].quote

\* a call bypassing the cache begins: the record, if any, is of another date
BeginsOnOtherDate(c) ==
    /\ quoteCalls' = quoteCalls + 1
    /\ qCaller' = c
    /\ cacheFile.state = "record"
    /\ cacheFile.date # today

\* a call that found a record of another date returns
StaleCallReturns(c) ==
    /\ qStale[c]
    /\ qPc[c] = "generating"
    /\ qPc'[c] = "idle"

\* C6: a call made on a date different from the date of the cache record
\* invokes the generator; when it returns, its response says cached = FALSE
\* and the cache record holds the date of the write and the returned quote.
C6_OtherDateBypassesCache ==
    [][ \A c \in QuoteClients :
          /\ BeginsOnOtherDate(c)
             => (qPc'[c] = "generating" /\ qInvoked'[c] /\ qStale'[c])
          /\ StaleCallReturns(c)
             => /\ ~qResp'[c].cached
                /\ qResp'[c].date = today
                /\ cacheFile' = [state |-> "record", date |-> today,
                                 quote |-> qResp'[c].quote]
      ]_vars

\* day 2: a call that found day 1's record has regenerated and overwritten it
C6_Witness ==
    \E c \in QuoteClients :
        /\ qStale[c]
        /\ qPc[c] = "idle"
        /\ qInvoked[c]
        /\ today = 2
        /\ ~qResp[c].cached
        /\ qResp[c].quote = <<"b">>
        /\ cacheFile = [state |-> "record", date |-> 2, quote |-> <<"b">>]

-----------------------------------------------------------------------------
(* Properties of the voice WebSocket                                       *)

\* this step handles one client message with the given action
Handles(action) == voiceMsgs' = voiceMsgs + 1 /\ lastMsg'.action = action

\* the audio_chunk being handled is put in the buffer: the connection is
\* Recording and the payload is non-empty and decodes
Accepted(msg) == is_recording /\ PayloadTruthy(msg.audio) /\ B64Valid(msg.audio)

IdsOf(chunks) == [i \in 1..Len(chunks) |-> chunks[i].id]

\* C7: while Recording, an audio_chunk triggers a flush exactly when it is
\* the 5th chunk in the buffer; that is then the only flush of the message
\* and covers exactly the 4 buffered chunks and the new one, in order.
\* Chunks 1 to 4 after an empty buffer are buffered and trigger no flush.
C7_FlushAtFifthChunk ==
    [][ Handles("audio_chunk") =>
          LET new == [id |-> nextChunk, len |-> B64DecodedLen(lastMsg'.audio)]
              fifth == Accepted(lastMsg') /\ Len(audio_chunks) + 1 = FLUSH_THRESHOLD
          IN  /\ Len(audio_chunks) < FLUSH_THRESHOLD
              /\ (flushed' # <<>>) <=> fifth
              /\ fifth => /\ Len(flushed') = 1
                          /\ flushed'[1].trigger = "chunk"
                          /\ flushed'[1].chunks = Append(audio_chunks, new)
                          /\ Len(flushed'[1].chunks) = 5
              /\ (Accepted(lastMsg') /\ ~fifth) => audio_chunks' = Append(audio_chunks, new)
      ]_vars

\* five chunks were sent after start_recording; the fifth has just been
\* handled and the one flush covers chunks 1..5
C7_Witness ==
    /\ lastMsg.action = "audio_chunk"
    /\ voiceMsgs = 6
    /\ Len(flushed) = 1
    /\ flushed[1].trigger = "chunk"
    /\ IdsOf(flushed[1].chunks) = <<1, 2, 3, 4, 5>>
    /\ \A i \in 1..5 : flushed[1].chunks[i].len > 0

\* C8: stop_recording with k buffered chunks, 1 <= k <= 4, triggers exactly
\* one flush, covering all k chunks in order; with an empty buffer it
\* triggers none.
C8_StopFlushesRemainder ==
    [][ Handles("stop_recording") =>
          /\ Len(audio_chunks) <= 4
          /\ IF audio_chunks = <<>>
             THEN flushed' = <<>>
             ELSE /\ Len(flushed') = 1
                  /\ flushed'[1].trigger = "stop"
                  /\ flushed'[1].chunks = audio_chunks
      ]_vars

\* four chunks then stop_recording: one flush of those four
C8_Witness ==
    /\ lastMsg.action = "stop_recording"
    /\ Len(flushed) = 1
    /\ flushed[1].trigger = "stop"
    /\ IdsOf(flushed[1].chunks) = <<1, 2, 3, 4>>

\* C9: a flush whose concatenated chunks are shorter than 1000 bytes neither
\* loads nor invokes the transcription model and sends the client nothing
\* (no transcription and no error message).
C9_SmallAudioNeverTranscribed ==
    \A i \in 1..Len(flushed) :
        JoinedLen(flushed[i].chunks) < 1000
        => /\ ~flushed[i].transcribed
           /\ ~flushed[i].loaded_model
           /\ flushed[i].sent = <<>>
           /\ \A j \in 1..Len(sentNow) : sentNow[j].type \notin {"transcription", "error"}

\* a flush of 999 bytes (4 chunks of 200 and one of 199) was skipped while
\* the model had never been loaded
C9_Witness ==
    /\ Len(flushed) = 1
    /\ JoinedLen(flushed[1].chunks) = 999
    /\ flushed[1].outcome = "skipped"
    /\ ~whisperLoaded
    /\ sentNow = <<>>

\* C10: after a message whose handling flushed, at the 5-chunk threshold or
\* on stop_recording, the buffer is empty when the handler turns to the next
\* message, whether the transcription succeeded, failed or was skipped.
C10_BufferEmptyAfterFlush ==
    flushed # <<>> => audio_chunks = <<>>

\* a threshold flush whose transcription failed: the handler is waiting for
\* the next message with an empty buffer
C10_Witness ==
    /\ wsState = "open"
    /\ Len(flushed) = 1
    /\ flushed[1].trigger = "chunk"
    /\ flushed[1].outcome = "failed"
    /\ is_recording
    /\ audio_chunks = <<>>

\* ---------------------------------------------------------------------------
\* Voice: failures inside a flush

\* conversion to WAV failed (the WebM file is transcribed instead), or the
\* Whisper model could not be loaded, or transcription raised, while the
\* client was still there
FlushHadFailure(f) ==
    /\ f.peer_ok
    /\ f.outcome # "skipped"
    /\ (f.wav = "webm" \/ f.outcome = "failed")

NoErrorSent(msgs) == \A i \in 1..Len(msgs) : msgs[i].type # "error"

\* C11: a turn of the handler whose flush met a conversion or transcription
\* failure sends no message of type "error" and leaves the handler open,
\* waiting for the next client message.
C11_FlushFailureNotSurfaced ==
    [][(/\ voiceMsgs' = voiceMsgs + 1
        /\ flushed' # <<>>
        /\ FlushHadFailure(flushed'[1]))
       => (/\ NoErrorSent(sentNow')
           /\ wsState' = "open")]_vars

C11_Witness ==
    /\ flushed # <<>>
    /\ flushed[1].peer_ok
    /\ flushed[1].outcome = "failed"
    /\ flushed[1].transcribed
    /\ NoErrorSent(sentNow)
    /\ wsState = "open"
    /\ voiceMsgs < MaxVoiceMsgs

\* ---------------------------------------------------------------------------
\* Voice: malformed chunk

\* an audio_chunk message whose audio text base64.b64decode rejects
Malformed(msg) ==
    /\ msg.action = "audio_chunk"
    /\ PayloadTruthy(msg.audio)
    /\ ~B64Valid(msg.audio)

\* C12: a malformed audio_chunk is dropped silently: the turn that handles it
\* sends no error message, leaves the recording state and the buffer as they
\* were, and leaves the handler open for the following messages.
C12_MalformedChunkDropped ==
    [][(/\ voiceMsgs' = voiceMsgs + 1
        /\ Malformed(lastMsg'))
       => (/\ NoErrorSent(sentNow')
           /\ is_recording' = is_recording
           /\ audio_chunks' = audio_chunks
           /\ wsState' = "open")]_vars

\* ---------------------------------------------------------------------------
\* Gateway: mock mode

\* no client was made at import: no credentials, placeholders, or a failed
\* create_client
MockMode == supabase = "None"

\* C13: in mock mode save_tracking_entry does not raise, and what it returns
\* holds every field of the submitted entry with its value, plus the field id
\* with the placeholder identifier.
C13_MockSaveEchoesEntry ==
    (MockMode /\ gwCall.op = "save_tracking_entry")
    => (/\ ~gwResult.raised
        /\ \A k \in DOMAIN gwCall.entry :
              /\ k \in DOMAIN gwResult.value
              /\ gwResult.value[k] = gwCall.entry[k]
        /\ "id" \in DOMAIN gwResult.value
        /\ gwResult.value["id"] = "mock-id-123"
        /\ DOMAIN gwResult.value = DOMAIN gwCall.entry \cup {"id"})

C13_Witness ==
    /\ MockMode
    /\ gwCall.op = "save_tracking_entry"
    /\ ~gwResult.raised
    /\ gwResult.value["type"] = "gym"
    /\ gwResult.value["id"] = "mock-id-123"

Saves(log) ==
    Len(SelectSeq(log, LAMBDA op : op \in {"save_tracking_entry", "save_chat_message"}))

\* C14: in mock mode nothing is retained and the database is never contacted:
\* both tables stay empty, no execute() call is made, and every
\* get_tracking_entries and get_chat_history call returns the empty list,
\* whatever was saved before.
C14_MockRetainsNothing ==
    MockMode
    => (/\ tracking_logs = <<>>
        /\ chat_messages = <<>>
        /\ dbCalls = 0
        /\ gwCall.op \in {"get_tracking_entries", "get_chat_history"}
              => gwResult = Returned(<<>>))

C14_Witness ==
    /\ MockMode
    /\ Saves(gwLog) >= 2
    /\ gwCall.op = "get_tracking_entries"
    /\ gwResult = Returned(<<>>)
    /\ dbCalls = 0

\* ---------------------------------------------------------------------------
\* Analytics

\* the entries of the requesting user inside the lookback window
Window(type) ==
    SelectSeq(tracking_logs,
              LAMBDA e : /\ e.user_id = dashCall.user_id
                         /\ e.type = type
                         /\ e.timestamp > DashNow - dashCall.days)

\* q is the arithmetic mean of the values of the entries
IsMeanOf(q, entries) == q.num * Len(entries) = SumValues(entries) * q.den

\* a served request that reached the database
DashServed == dashResult.status = 200 /\ ~MockMode

\* C15 as stated: sleep_avg and water_avg are the arithmetic mean of the values
\* of the sleep and water entries in the window (6 and 8 give 7), gym_count is
\* the number of gym entries in the window, and a category with no entry in
\* the window reports 0; the response is then still a 200.
C15_AveragesAndCounts ==
    DashServed
    => (/\ IsMeanOf(dashResult.sleep_avg, Window("sleep"))
        /\ IsMeanOf(dashResult.water_avg, Window("water"))
        /\ dashResult.gym_count = Len(Window("gym"))
        /\ Window("sleep") = <<>> => dashResult.sleep_avg = Zero
        /\ Window("water") = <<>> => dashResult.water_avg = Zero
        /\ Window("mood") = <<>> => dashResult.mood_avg = Zero
        /\ Window("gym") = <<>> => dashResult.gym_count = 0
        /\ dashResult.sleep_avg.den > 0
        /\ dashResult.water_avg.den > 0)

\* sleep values 6 and 8 in the window give 7, next to a category without
\* entries
C15_Witness ==
    /\ DashServed
    /\ Len(Window("sleep")) = 2
    /\ SumValues(Window("sleep")) = 14
    /\ dashResult.sleep_avg = [num |-> 7, den |-> 1]
    /\ Window("water") = <<>>
    /\ dashResult.water_avg = Zero
    /\ Len(Window("gym")) = 1
    /\ dashResult.gym_count = 1

\* the entries get_dashboard works on are those of the 100 latest entries of
\* the requesting user that lie inside the lookback window
InWindowOf(latest, type) ==
    SelectSeq(latest, LAMBDA e : e.type = type /\ e.timestamp > DashNow - dashCall.days)

\* C15 amended: the means, the count and the zeros are those of the entries
\* in the window among the 100 latest entries of the user.
C15_AveragesOverFetched ==
    DashServed
    => LET latest == SelectTracking(tracking_logs, dashCall.user_id, NONE, DASH_LIMIT)
           sleep == InWindowOf(latest, "sleep")
           water == InWindowOf(latest, "water")
           gym == InWindowOf(latest, "gym")
           mood == InWindowOf(latest, "mood")
       IN  /\ IsMeanOf(dashResult.sleep_avg, sleep)
           /\ IsMeanOf(dashResult.water_avg, water)
           /\ dashResult.gym_count = Len(gym)
           /\ sleep = <<>> => dashResult.sleep_avg = Zero
           /\ water = <<>> => dashResult.water_avg = Zero
           /\ mood = <<>> => dashResult.mood_avg = Zero
           /\ gym = <<>> => dashResult.gym_count = 0
           /\ dashResult.sleep_avg.den > 0
           /\ dashResult.water_avg.den > 0

\* ---------------------------------------------------------------------------
\* Providers: failures

\* the upstream call gave no answer text (it raised, or its reply had no
\* usable content)
UpstreamFailed(up) == up.kind \in {"raises", "badshape", "null"}

\* the HTTP body, or the answer text once the code fence is removed, is not
\* JSON where JSON is expected
ParseFailed(op, up) ==
    \/ up.kind = "notjson"
    \/ /\ op \in {"chat", "generate_insights"}
       /\ up.kind = "text"
       /\ CleanJson(up.text) # <<"{json}">>

Failed(op, up) == op # "none" /\ (UpstreamFailed(up) \/ ParseFailed(op, up))

HasError(v) == "error" \in DOMAIN v

\* C16 as stated: on an upstream or parse failure no provider method raises;
\* generate_insights returns the default insights, generate_daily_quote the
\* fallback quote, and chat the apology message together with an error field.
C16_FailuresAbsorbed ==
    Failed(aiOp.op, aiOp.up)
    => (/\ ~aiResult.raised
        /\ aiOp.op = "generate_insights" => aiResult.value = DEFAULT_INSIGHTS
        /\ aiOp.op = "generate_daily_quote" => aiResult.value = <<QUOTE_FALLBACK>>
        /\ aiOp.op = "chat" => (/\ aiResult.value.response = <<APOLOGY>>
                                /\ HasError(aiResult.value)))

\* C16 amended: as stated for generate_insights and generate_daily_quote;
\* chat does not raise either, returns the apology with an error field when
\* the upstream call gave no answer text, and returns the answer text (a short
\* apology when there is none) with no extracted data and no error field when
\* the answer or the HTTP body is not JSON.
C16_FailuresAbsorbedChatSplit ==
    Failed(aiOp.op, aiOp.up)
    => (/\ ~aiResult.raised
        /\ aiOp.op = "generate_insights" => aiResult.value = DEFAULT_INSIGHTS
        /\ aiOp.op = "generate_daily_quote" => aiResult.value = <<QUOTE_FALLBACK>>
        /\ (aiOp.op = "chat" /\ UpstreamFailed(aiOp.up))
             => (/\ aiResult.value.response = <<APOLOGY>>
                 /\ HasError(aiResult.value)
                 /\ aiResult.value.extracted_data = NONE)
        /\ (aiOp.op = "chat" /\ ParseFailed("chat", aiOp.up))
             => (/\ ~HasError(aiResult.value)
                 /\ aiResult.value.extracted_data = NONE
                 /\ aiResult.value.response
                      \in {aiOp.up.text, CleanJson(aiOp.up.text), <<SHORT_APOLOGY>>}
                 /\ aiOp.up.kind = "notjson"
                      => aiResult.value.response = <<SHORT_APOLOGY>>))

C16_Witness ==
    /\ aiOp.op = "chat"
    /\ aiOp.up.kind = "text"
    /\ aiOp.up.text = <<"plain words">>
    /\ ~aiResult.raised
    /\ ~HasError(aiResult.value)
    /\ aiResult.value.response = <<"plain words">>

\* ---------------------------------------------------------------------------
\* Provider selector

GetAiCalls(log) == Len(SelectSeq(log, LAMBDA op : op = "get_ai"))

\* C17: once a get_ai call has constructed a provider, every later get_ai call
\* returns that instance, constructs nothing and does not read AI_PROVIDER,
\* whatever the flag and the keys have become.
C17_SingleInstance ==
    [][(aiLog' = Append(aiLog, "get_ai") /\ constructed >= 1)
       => (/\ ~aiGot'.raised
           /\ aiGot'.value = ai_provider
           /\ aiGot'.value.id = 1
           /\ ai_provider' = ai_provider
           /\ constructed' = constructed
           /\ flagReads' = flagReads)]_vars

\* the flag names the other provider, whose key is set, and get_ai has still
\* returned the first instance
C17_Witness ==
    /\ constructed = 1
    /\ GetAiCalls(aiLog) >= 2
    /\ aiLog[Len(aiLog)] = "get_ai"
    /\ ai_provider.class = "OpenRouterProvider"
    /\ provider_name(envFlag) = "gemini"
    /\ envKeys.gemini
    /\ aiGot = Returned(ai_provider)

\* ---------------------------------------------------------------------------
\* Coach: order of the candidates

\* the calls made so far by the running request follow the list: the i-th
\* call went to the i-th entry, every call but the last one failed, and the
\* entry to contact next is the one after the last contacted
CoachInOrder ==
    /\ Len(coachLog) <= Len(coachModels)
    /\ \A i \in 1..Len(coachLog) : coachLog[i].model = coachModels[i]
    /\ \A i \in 1..(Len(coachLog) - 1) : ~Succeeds(coachLog[i].outcome)
    /\ coachModels # <<>> => SubSeq(coachModels, 2, Len(coachModels)) = BACKUP_MODELS
    /\ coachPc = "loop" => coachIdx = Len(coachLog) + 1

\* a step of the handler keeps the order: a new request starts with no call
\* made, no error remembered and the first entry next; a call is made one at
\* a time, to the entry after the last contacted one
CoachOrderStep ==
    /\ CoachInOrder'
    /\ coachRequests' = coachRequests + 1
         => (/\ coachLog' = <<>>
             /\ last_error' = NoOutcome
             /\ coachPc' = "loop" => coachIdx' = 1)
    /\ coachLog' # coachLog /\ coachRequests' = coachRequests
         => (/\ coachPc = "loop"
             /\ Len(coachLog') = Len(coachLog) + 1
             /\ SubSeq(coachLog', 1, Len(coachLog)) = coachLog
             /\ coachLog'[Len(coachLog')].model = coachModels[Len(coachLog) + 1])

\* no model identifier is contacted twice by the running request
NoModelTwice ==
    \A i, j \in 1..Len(coachLog) : i # j => coachLog[i].model # coachLog[j].model

\* C18 as stated: within a request the candidates (configured default, then
\* the two backups) are contacted in list order, one at a time and each at
\* most once, the next one only after the call to the previous one failed; a
\* new request starts again from the first candidate, however the request
\* before it ended.
C18_EachModelOnce == [][CoachOrderStep /\ NoModelTwice']_vars

\* C18 amended: the same with "at most once" said of the list entries: a
\* model named twice in the list (OPENROUTER_MODEL equal to a backup) is
\* contacted once for each of its entries, and no identifier is contacted
\* more often than it is listed.
C18_CandidatesInOrder ==
    [][/\ CoachOrderStep
       /\ \A i, j \in 1..Len(coachLog') :
             (i # j /\ coachLog'[i].model = coachLog'[j].model)
             => coachModels'[i] = coachModels'[j]]_vars

\* the second request has gone through all three entries, of which the
\* first two name the same model
C18_Witness ==
    /\ coachRequests = 2
    /\ coachPc = "done"
    /\ Len(coachLog) = 3
    /\ coachLog[1].model = BACKUP_MODELS[1]
    /\ coachLog[2].model = BACKUP_MODELS[1]
    /\ coachLog[3].model = BACKUP_MODELS[2]

\* ---------------------------------------------------------------------------
\* Quotes: one quote per date, and the race of two requests

\* C19: once the cache holds a quote (a text that is not empty) for a date, no
\* later write stores a different quote for that date.
C19_OneQuotePerDate ==
    [][(/\ cacheFile.state = "record"
        /\ Truthy(cacheFile.quote)
        /\ cacheFile'.state = "record"
        /\ cacheFile'.date = cacheFile.date)
       => cacheFile'.quote = cacheFile.quote]_vars

\* request c comes out of the generator and writes
Writes(c) == qPc[c] = "generating" /\ qPc'[c] = "idle"

\* C20: two requests that both missed the cache before either wrote have both
\* invoked the generator; each of them then writes whatever the cache holds
\* by then, so that the cache holds the quote of the one that wrote last.
C20_LastWriterWins ==
    [][/\ (\A c \in QuoteClients : qPc'[c] = "generating")
           => (\A c \in QuoteClients : qInvoked'[c])
       /\ \A c \in QuoteClients :
             Writes(c)
             => (/\ qInvoked[c]
                 /\ cacheFile' = [state |-> "record", date |-> today,
                                   quote |-> qResp'[c].quote]
                 /\ ~qResp'[c].cached
                 /\ lastReturned' = qResp'[c])]_vars

\* both requests began on the date of the record, both invoked the generator
\* and got different quotes, r1 got a quote that a later lookup would have
\* hit, and the cache holds the quote of r2
C20_Witness ==
    /\ \A c \in QuoteClients : qPc[c] = "idle" /\ qInvoked[c] /\ ~qResp[c].cached
    /\ quoteCalls = 2
    /\ qStartDate["r1"] = today
    /\ qStartDate["r2"] = today
    /\ qResp["r1"].quote = <<"a">>
    /\ qResp["r2"].quote = <<"b">>
    /\ cacheFile = [state |-> "record", date |-> today, quote |-> <<"b">>]

-----------------------------------------------------------------------------

\* a connection is accepted: voice_stream runs up to its loop
Connects == wsState = "closed" /\ wsState' = "open"

\* a message is received and handled
HandlesAny == voiceMsgs' = voiceMsgs + 1

\* C21: per connection the recording state starts Idle, becomes Recording on
\* start_recording and Idle on stop_recording, and no other message changes
\* it; an audio_chunk is appended to the buffer only while Recording: one
\* received while Idle leaves the buffer unchanged and triggers no flush.
C21_RecordingStateMachine ==
    [][ /\ Connects => ~is_recording'
        /\ Handles("start_recording") => is_recording'
        /\ Handles("stop_recording") => ~is_recording'
        /\ (HandlesAny /\ lastMsg'.action \notin {"start_recording", "stop_recording"})
              => is_recording' = is_recording
        /\ (Handles("audio_chunk") /\ ~is_recording)
              => audio_chunks' = audio_chunks /\ flushed' = <<>>
        /\ (Handles("audio_chunk") /\ Len(audio_chunks') > Len(audio_chunks))
              => is_recording
      ]_vars

\* a non-empty, decodable chunk was received while Idle and went nowhere
C21_Witness ==
    /\ wsState = "open"
    /\ lastMsg.action = "audio_chunk"
    /\ PayloadTruthy(lastMsg.audio) /\ B64Valid(lastMsg.audio)
    /\ ~is_recording
    /\ audio_chunks = <<>>
    /\ flushed = <<>>

\* the handler is at line 45, waiting for the next client message
AwaitsMessage == wsState = "open"

\* C22: wherever the handler waits for the next client message the buffer
\* holds at most 4 chunks, and it is empty whenever the state is Idle.
C22_BufferBoundedAtWait ==
    AwaitsMessage =>
        /\ Len(audio_chunks) <= FLUSH_THRESHOLD - 1
        /\ (~is_recording => audio_chunks = <<>>)

\* the handler waits while Recording with a buffer at the bound
C22_Witness ==
    /\ AwaitsMessage
    /\ is_recording
    /\ Len(audio_chunks) = FLUSH_THRESHOLD - 1
    /\ lastMsg.action = "audio_chunk"

\* a start_recording arrives while Recording with 1 to 4 chunks buffered
RestartsWithBuffer ==
    /\ Handles("start_recording")
    /\ is_recording
    /\ Len(audio_chunks) \in 1..(FLUSH_THRESHOLD - 1)

PassedSet == {passed[i] : i \in 1..Len(passed)}

\* C23: start_recording received while Recording with 1 to 4 buffered chunks
\* empties the buffer without a flush, and the chunks it threw away are
\* never passed to transcription afterwards.
C23_RestartDiscardsBuffer ==
    /\ [][ RestartsWithBuffer =>
             /\ audio_chunks' = <<>>
             /\ flushed' = <<>>
             /\ passed' = passed
             /\ \A i \in 1..Len(audio_chunks) : audio_chunks[i].id \in dropped'
         ]_vars
    /\ [](dropped \cap PassedSet = {})

\* chunks were thrown away by a restart and a later flush went through
\* with newer chunks only
C23_Witness ==
    /\ dropped # {}
    /\ flushed # <<>>
    /\ \E d \in dropped : \A i \in 1..Len(flushed[1].chunks) : flushed[1].chunks[i].id > d

\* C24: every chunk accepted into the buffer is passed to at most one flush,
\* and within each flush and across successive flushes the chunks appear in
\* the order they arrived: none is duplicated and none is reordered.
C24_FlushedOnceInOrder ==
    /\ \A i, j \in 1..Len(passed) : i < j => passed[i] < passed[j]
    /\ \A k \in 1..Len(flushed) :
          /\ flushed[k].audio_data = ArrivalsOf(flushed[k].chunks)
          /\ \A i \in 1..Len(flushed[k].chunks) : flushed[k].chunks[i].id < nextChunk

\* two successive flushes took place, the second with later chunks
C24_Witness ==
    /\ flushed # <<>>
    /\ Len(passed) > Len(flushed[1].chunks)
    /\ Len(flushed[1].chunks) > 1

-----------------------------------------------------------------------------
(* Properties of the chat endpoint                                         *)

\* what a gateway call of the request persists or reads
CallKind(c) ==
    CASE c.op = "get_chat_history" -> "history"
      [] c.op = "save_chat_message" -> c.role
      [] c.op = "save_tracking_entry" -> c.entry.type
      [] OTHER -> "other"

MadeCalls == [i \in 1..Len(chatLog) |-> CallKind(chatLog[i])]

\* the extracted fields of an answer, in the order the answer lists them
FieldsOf(answer) ==
    IF answer.kind = "dict" /\ answer.extracted_data.kind = "dict"
    THEN answer.extracted_data.items ELSE <<>>

CallsForEntry(item) == item.value.kind # "null" /\ item.key \in DOMAIN type_map

\* history, user message, assistant response, then one entry per field
\* that is non-null and in the map
ExpectedCalls(answer) ==
    LET fields == SelectSeq(FieldsOf(answer), CallsForEntry)
    IN  <<"history", "user", "assistant">>
            \o [i \in 1..Len(fields) |-> type_map[fields[i].key]]

IsPrefixOf(s, t) == Len(s) <= Len(t) /\ s = SubSeq(t, 1, Len(s))

\* C25: send_message persists in a fixed order: the history is read before
\* anything is saved, then the user message is saved, then the assistant
\* response, then exactly one tracking entry per extracted field that is
\* non-null and whose key is in type_map; null or unmapped fields and an
\* answer without extracted data give no entry. A request that fails has
\* made a prefix of these calls; one that is served has made them all.
C25_PersistenceOrder ==
    /\ IsPrefixOf(MadeCalls, ExpectedCalls(ai_response))
    /\ chatPc # "idle" => (MadeCalls # <<>> /\ MadeCalls[1] = "history")
    /\ chatResult.status = 200 => MadeCalls = ExpectedCalls(ai_response)
    /\ \A i \in 1..Len(chatLog) :
          chatLog[i].op = "save_tracking_entry" =>
              \E k \in 1..Len(FieldsOf(ai_response)) :
                  LET item == FieldsOf(ai_response)[k]
                  IN  /\ CallsForEntry(item)
                      /\ chatLog[i].entry.type = type_map[item.key]
                      /\ chatLog[i].entry.user_id = chatReq.user_id

\* a served request whose answer had a null field, an unmapped field and a
\* field that calls for an entry
C25_Witness ==
    /\ chatResult.status = 200
    /\ Len(FieldsOf(ai_response)) = 3
    /\ MadeCalls = <<"history", "user", "assistant", "gym">>

====
